---------------------------- MODULE Spec2Model ----------------------------
(***************************************************************************)
(* The Food Delivery graph-database demo (src/app.py): a Streamlit script  *)
(* that is re-run from top to bottom for every interaction.  One session   *)
(* is modelled.  The state is the widget state (page, query_option), the   *)
(* position of the running script (pc, idx), the module-level data         *)
(* (graph_model, queries) and the locals and outputs of the branch the     *)
(* script takes.                                                           *)
(*                                                                         *)
(* Python strings that the code takes apart or puts together character by  *)
(* character (selectbox options, CSV text, file names) are sequences of    *)
(* one-character strings; strings the code only passes around (type names, *)
(* relationship labels, colours) are TLA+ strings.  The page names and the *)
(* icons are written without their emoji.                                  *)
(***************************************************************************)
EXTENDS Integers, Sequences, FiniteSets, TLC

VARIABLES
  page,            \* st.radio value (line 56)
  query_option,    \* st.selectbox widget state (line 270); None when the widget is absent
  pc,              \* position of the script run
  idx,             \* index of the loop the script is in
  graph_model,     \* module-level dict (line 68)
  queries,         \* module-level list (line 112)
  branches,        \* page branches entered by the current run, in order
  shown,           \* what the current run has put on the page, in order
  metrics,         \* st.metric calls of the current run: <<label, value>>
  options,         \* the option list handed to st.selectbox
  query_idx,       \* local of the Queries branch (line 275)
  selected_query,  \* local of the Queries branch (line 276)
  csv,             \* local of the Queries branch (line 288)
  download_button, \* the rendered download button: its file_name and data
  download,        \* the file the browser saved last
  G,               \* nx.DiGraph of the Visualization branch
  node_colors,     \* dict of the Visualization branch (line 304)
  edge_labels,     \* dict of the Visualization branch (line 310)
  pos,             \* keys of the dict spring_layout returns (line 319)
  outcome          \* "running", "ok" or the exception that ended the run

vars == <<page, query_option, pc, idx, graph_model, queries, branches, shown,
          metrics, options, query_idx, selected_query, csv, download_button,
          download, G, node_colors, edge_labels, pos, outcome>>

\* An unbound local / an absent value, and a bound one.
None == <<>>
Some(v) == <<v>>
Val(o) == o[1]

-----------------------------------------------------------------------------
(* The literals of the script *)

Pages == <<"Overview", "Nodes", "Edges", "Queries", "Visualization", "Implementation">>

\* The node list with the last entry's type a copy of the third's.
GraphModelNodesDuplicate ==
  << [type |-> "Customer",
      properties |-> <<"customer_id", "name", "phone", "address", "join_date">>,
      color |-> "#60a5fa", icon |-> "bust"],
     [type |-> "Restaurant",
      properties |-> <<"restaurant_id", "name", "cuisine_type", "rating", "location">>,
      color |-> "#f472b6", icon |-> "store"],
     [type |-> "Dish",
      properties |-> <<"dish_id", "name", "price", "category", "is_vegetarian">>,
      color |-> "#fbbf24", icon |-> "plate"],
     [type |-> "DeliveryPerson",
      properties |-> <<"person_id", "name", "phone", "vehicle_type", "rating">>,
      color |-> "#34d399", icon |-> "motorcycle"],
     [type |-> "Dish",
      properties |-> <<"order_id", "order_date", "total_amount", "status", "delivery_time">>,
      color |-> "#a78bfa", icon |-> "package"] >>

\* graph_model['nodes'] (lines 69-100)
GraphModelNodes ==
  << [type |-> "Customer",
      properties |-> <<"customer_id", "name", "phone", "address", "join_date">>,
      color |-> "#60a5fa", icon |-> "bust"],
     [type |-> "Restaurant",
      properties |-> <<"restaurant_id", "name", "cuisine_type", "rating", "location">>,
      color |-> "#f472b6", icon |-> "store"],
     [type |-> "Dish",
      properties |-> <<"dish_id", "name", "price", "category", "is_vegetarian">>,
      color |-> "#fbbf24", icon |-> "plate"],
     [type |-> "DeliveryPerson",
      properties |-> <<"person_id", "name", "phone", "vehicle_type", "rating">>,
      color |-> "#34d399", icon |-> "motorcycle"],
     [type |-> "Order",
      properties |-> <<"order_id", "order_date", "total_amount", "status", "delivery_time">>,
      color |-> "#a78bfa", icon |-> "package"] >>

\* The edge list with the first edge's target misspelt.
GraphModelEdgesDangling ==
  << [from |-> "Customer", to |-> "Orders", relationship |-> "PLACES",
      properties |-> <<"timestamp">>],
     [from |-> "Order", to |-> "Restaurant", relationship |-> "FROM",
      properties |-> <<"order_date">>],
     [from |-> "Order", to |-> "Dish", relationship |-> "CONTAINS",
      properties |-> <<"quantity", "price">>],
     [from |-> "DeliveryPerson", to |-> "Order", relationship |-> "DELIVERS",
      properties |-> <<"pickup_time", "delivery_time">>],
     [from |-> "Restaurant", to |-> "Dish", relationship |-> "SERVES",
      properties |-> <<"availability">>],
     [from |-> "Customer", to |-> "Restaurant", relationship |-> "REVIEWS",
      properties |-> <<"rating", "comment", "date">>] >>

\* The edge list with REVIEWS drawn between the endpoints of PLACES.
GraphModelEdgesParallel ==
  << [from |-> "Customer", to |-> "Order", relationship |-> "PLACES",
      properties |-> <<"timestamp">>],
     [from |-> "Order", to |-> "Restaurant", relationship |-> "FROM",
      properties |-> <<"order_date">>],
     [from |-> "Order", to |-> "Dish", relationship |-> "CONTAINS",
      properties |-> <<"quantity", "price">>],
     [from |-> "DeliveryPerson", to |-> "Order", relationship |-> "DELIVERS",
      properties |-> <<"pickup_time", "delivery_time">>],
     [from |-> "Restaurant", to |-> "Dish", relationship |-> "SERVES",
      properties |-> <<"availability">>],
     [from |-> "Customer", to |-> "Order", relationship |-> "REVIEWS",
      properties |-> <<"rating", "comment", "date">>] >>

\* graph_model['edges'] (lines 101-108)
GraphModelEdges ==
  << [from |-> "Customer", to |-> "Order", relationship |-> "PLACES",
      properties |-> <<"timestamp">>],
     [from |-> "Order", to |-> "Restaurant", relationship |-> "FROM",
      properties |-> <<"order_date">>],
     [from |-> "Order", to |-> "Dish", relationship |-> "CONTAINS",
      properties |-> <<"quantity", "price">>],
     [from |-> "DeliveryPerson", to |-> "Order", relationship |-> "DELIVERS",
      properties |-> <<"pickup_time", "delivery_time">>],
     [from |-> "Restaurant", to |-> "Dish", relationship |-> "SERVES",
      properties |-> <<"availability">>],
     [from |-> "Customer", to |-> "Restaurant", relationship |-> "REVIEWS",
      properties |-> <<"rating", "comment", "date">>] >>

GraphModelLiteral == [nodes |-> GraphModelNodes, edges |-> GraphModelEdges]

\* A pd.DataFrame built from a dict of columns is the columns in insertion
\* order, each a name and its values.  A value is a Python str (s), int (n)
\* or float (the decimal n / 10^d, as its repr writes it).
Query1 ==
  [title |-> <<"F", "i", "n", "d", " ", "a", "l", "l", " ", "o", "r", "d", "e", "r", "s", " ", "b", "y", " ", "a", " ", "c", "u", "s", "t", "o", "m", "e", "r">>,
   description |-> "Retrieve all orders placed by customer \"Alice\"",
   query |-> "MATCH (c:Customer {name: 'Alice'})-[:PLACES]->(o:Order)\nRETURN c.name, o.order_id, o.total_amount, o.status",
   result |-> <<
     [name |-> <<"c", "u", "s", "t", "o", "m", "e", "r">>,
      values |-> <<[t |-> "str", s |-> <<"A", "l", "i", "c", "e">>, n |-> 0, d |-> 0],
                   [t |-> "str", s |-> <<"A", "l", "i", "c", "e">>, n |-> 0, d |-> 0]>>],
     [name |-> <<"o", "r", "d", "e", "r", "_", "i", "d">>,
      values |-> <<[t |-> "str", s |-> <<"O", "R", "D", "0", "0", "1">>, n |-> 0, d |-> 0],
                   [t |-> "str", s |-> <<"O", "R", "D", "0", "0", "5">>, n |-> 0, d |-> 0]>>],
     [name |-> <<"a", "m", "o", "u", "n", "t">>,
      values |-> <<[t |-> "int", s |-> <<>>, n |-> 450, d |-> 0],
                   [t |-> "int", s |-> <<>>, n |-> 320, d |-> 0]>>],
     [name |-> <<"s", "t", "a", "t", "u", "s">>,
      values |-> <<[t |-> "str", s |-> <<"d", "e", "l", "i", "v", "e", "r", "e", "d">>, n |-> 0, d |-> 0],
                   [t |-> "str", s |-> <<"i", "n", "_", "t", "r", "a", "n", "s", "i", "t">>, n |-> 0, d |-> 0]>>] >>]

Query2 ==
  [title |-> <<"F", "i", "n", "d", " ", "d", "i", "s", "h", "e", "s", " ", "f", "r", "o", "m", " ", "a", " ", "r", "e", "s", "t", "a", "u", "r", "a", "n", "t">>,
   description |-> "Get all dishes served by \"Spice Garden\"",
   query |-> "MATCH (r:Restaurant {name: 'Spice Garden'})-[:SERVES]->(d:Dish)\nRETURN r.name, d.name, d.price, d.category",
   result |-> <<
     [name |-> <<"r", "e", "s", "t", "a", "u", "r", "a", "n", "t">>,
      values |-> <<[t |-> "str", s |-> <<"S", "p", "i", "c", "e", " ", "G", "a", "r", "d", "e", "n">>, n |-> 0, d |-> 0],
                   [t |-> "str", s |-> <<"S", "p", "i", "c", "e", " ", "G", "a", "r", "d", "e", "n">>, n |-> 0, d |-> 0]>>],
     [name |-> <<"d", "i", "s", "h">>,
      values |-> <<[t |-> "str", s |-> <<"B", "u", "t", "t", "e", "r", " ", "C", "h", "i", "c", "k", "e", "n">>, n |-> 0, d |-> 0],
                   [t |-> "str", s |-> <<"P", "a", "n", "e", "e", "r", " ", "T", "i", "k", "k", "a">>, n |-> 0, d |-> 0]>>],
     [name |-> <<"p", "r", "i", "c", "e">>,
      values |-> <<[t |-> "int", s |-> <<>>, n |-> 280, d |-> 0],
                   [t |-> "int", s |-> <<>>, n |-> 220, d |-> 0]>>],
     [name |-> <<"c", "a", "t", "e", "g", "o", "r", "y">>,
      values |-> <<[t |-> "str", s |-> <<"M", "a", "i", "n", " ", "C", "o", "u", "r", "s", "e">>, n |-> 0, d |-> 0],
                   [t |-> "str", s |-> <<"A", "p", "p", "e", "t", "i", "z", "e", "r">>, n |-> 0, d |-> 0]>>] >>]

Query3 ==
  [title |-> <<"T", "r", "a", "c", "k", " ", "o", "r", "d", "e", "r", " ", "d", "e", "l", "i", "v", "e", "r", "y", " ", "c", "h", "a", "i", "n">>,
   description |-> "Complete delivery chain for an order",
   query |-> "MATCH (c:Customer)-[:PLACES]->(o:Order)-[:FROM]->(r:Restaurant),\n      (o)-[:CONTAINS]->(d:Dish),\n      (dp:DeliveryPerson)-[:DELIVERS]->(o)\nWHERE o.order_id = 'ORD001'\nRETURN c.name, r.name, d.name, dp.name, o.status",
   result |-> <<
     [name |-> <<"c", "u", "s", "t", "o", "m", "e", "r">>,
      values |-> <<[t |-> "str", s |-> <<"A", "l", "i", "c", "e">>, n |-> 0, d |-> 0]>>],
     [name |-> <<"r", "e", "s", "t", "a", "u", "r", "a", "n", "t">>,
      values |-> <<[t |-> "str", s |-> <<"S", "p", "i", "c", "e", " ", "G", "a", "r", "d", "e", "n">>, n |-> 0, d |-> 0]>>],
     [name |-> <<"d", "i", "s", "h">>,
      values |-> <<[t |-> "str", s |-> <<"B", "u", "t", "t", "e", "r", " ", "C", "h", "i", "c", "k", "e", "n">>, n |-> 0, d |-> 0]>>],
     [name |-> <<"d", "e", "l", "i", "v", "e", "r", "y", "_", "p", "e", "r", "s", "o", "n">>,
      values |-> <<[t |-> "str", s |-> <<"R", "a", "j">>, n |-> 0, d |-> 0]>>],
     [name |-> <<"s", "t", "a", "t", "u", "s">>,
      values |-> <<[t |-> "str", s |-> <<"d", "e", "l", "i", "v", "e", "r", "e", "d">>, n |-> 0, d |-> 0]>>] >>]

Query4 ==
  [title |-> <<"F", "i", "n", "d", " ", "h", "i", "g", "h", "l", "y", " ", "r", "a", "t", "e", "d", " ", "r", "e", "s", "t", "a", "u", "r", "a", "n", "t", "s">>,
   description |-> "Restaurants with average rating > 4.5",
   query |-> "MATCH (c:Customer)-[r:REVIEWS]->(rest:Restaurant)\nWHERE r.rating >= 4.5\nRETURN rest.name, rest.cuisine_type, AVG(r.rating) as avg_rating\nORDER BY avg_rating DESC",
   result |-> <<
     [name |-> <<"r", "e", "s", "t", "a", "u", "r", "a", "n", "t">>,
      values |-> <<[t |-> "str", s |-> <<"S", "p", "i", "c", "e", " ", "G", "a", "r", "d", "e", "n">>, n |-> 0, d |-> 0],
                   [t |-> "str", s |-> <<"P", "i", "z", "z", "a", " ", "P", "a", "r", "a", "d", "i", "s", "e">>, n |-> 0, d |-> 0]>>],
     [name |-> <<"c", "u", "i", "s", "i", "n", "e">>,
      values |-> <<[t |-> "str", s |-> <<"I", "n", "d", "i", "a", "n">>, n |-> 0, d |-> 0],
                   [t |-> "str", s |-> <<"I", "t", "a", "l", "i", "a", "n">>, n |-> 0, d |-> 0]>>],
     [name |-> <<"a", "v", "g", "_", "r", "a", "t", "i", "n", "g">>,
      values |-> <<[t |-> "float", s |-> <<>>, n |-> 47, d |-> 1],
                   [t |-> "float", s |-> <<>>, n |-> 46, d |-> 1]>>] >>]

Query5 ==
  [title |-> <<"D", "e", "l", "i", "v", "e", "r", "y", " ", "p", "e", "r", "s", "o", "n", " ", "p", "e", "r", "f", "o", "r", "m", "a", "n", "c", "e">>,
   description |-> "Find all orders delivered by a specific person",
   query |-> "MATCH (dp:DeliveryPerson {name: 'Raj'})-[del:DELIVERS]->(o:Order)\nRETURN dp.name, COUNT(o) as total_deliveries, \n       AVG(del.delivery_time) as avg_delivery_time",
   result |-> <<
     [name |-> <<"d", "e", "l", "i", "v", "e", "r", "y", "_", "p", "e", "r", "s", "o", "n">>,
      values |-> <<[t |-> "str", s |-> <<"R", "a", "j">>, n |-> 0, d |-> 0]>>],
     [name |-> <<"t", "o", "t", "a", "l", "_", "d", "e", "l", "i", "v", "e", "r", "i", "e", "s">>,
      values |-> <<[t |-> "int", s |-> <<>>, n |-> 15, d |-> 0]>>],
     [name |-> <<"a", "v", "g", "_", "d", "e", "l", "i", "v", "e", "r", "y", "_", "t", "i", "m", "e">>,
      values |-> <<[t |-> "str", s |-> <<"2", "8", " ", "m", "i", "n", "s">>, n |-> 0, d |-> 0]>>] >>]

Query6 ==
  [title |-> <<"C", "u", "s", "t", "o", "m", "e", "r", " ", "p", "r", "e", "f", "e", "r", "e", "n", "c", "e", "s">>,
   description |-> "Find most ordered dish categories by customer",
   query |-> "MATCH (c:Customer {name: 'Alice'})-[:PLACES]->(o:Order)-[:CONTAINS]->(d:Dish)\nRETURN d.category, COUNT(d) as order_count\nORDER BY order_count DESC",
   result |-> <<
     [name |-> <<"c", "a", "t", "e", "g", "o", "r", "y">>,
      values |-> <<[t |-> "str", s |-> <<"M", "a", "i", "n", " ", "C", "o", "u", "r", "s", "e">>, n |-> 0, d |-> 0],
                   [t |-> "str", s |-> <<"D", "e", "s", "s", "e", "r", "t">>, n |-> 0, d |-> 0],
                   [t |-> "str", s |-> <<"A", "p", "p", "e", "t", "i", "z", "e", "r">>, n |-> 0, d |-> 0]>>],
     [name |-> <<"c", "o", "u", "n", "t">>,
      values |-> <<[t |-> "int", s |-> <<>>, n |-> 8, d |-> 0],
                   [t |-> "int", s |-> <<>>, n |-> 5, d |-> 0],
                   [t |-> "int", s |-> <<>>, n |-> 3, d |-> 0]>>] >>]
QueriesLiteral == <<Query1, Query2, Query3, Query4, Query5, Query6>>

-----------------------------------------------------------------------------
(* Python string and list operations the script uses *)

Digits == <<"0", "1", "2", "3", "4", "5", "6", "7", "8", "9">>

IsDigit(c) == \E d \in 1..10 : Digits[d] = c

DigitValue(c) == (CHOOSE d \in 1..10 : Digits[d] = c) - 1

RECURSIVE NatStr(_)
NatStr(n) == IF n < 10 THEN <<Digits[n + 1]>>
             ELSE NatStr(n \div 10) \o <<Digits[(n % 10) + 1]>>

\* str(n) of an int, as an f-string formats it
Str(n) == IF n < 0 THEN <<"-">> \o NatStr(-n) ELSE NatStr(n)

\* s.split(sep)[0]: the text before the first sep, all of s when there is none
RECURSIVE SplitFirst(_, _)
SplitFirst(s, sep) ==
  IF s = <<>> \/ Head(s) = sep THEN <<>>
  ELSE <<Head(s)>> \o SplitFirst(Tail(s), sep)

RECURSIVE DigitsValue(_, _)
DigitsValue(s, acc) ==
  IF s = <<>> THEN acc
  ELSE DigitsValue(Tail(s), acc * 10 + DigitValue(Head(s)))

RECURSIVE Strip(_)
Strip(s) ==
  IF s # <<>> /\ Head(s) = " " THEN Strip(Tail(s))
  ELSE IF s # <<>> /\ s[Len(s)] = " " THEN Strip(SubSeq(s, 1, Len(s) - 1))
  ELSE s

\* int(s): Some(value), or None for the ValueError of a text that is no
\* optionally signed run of digits (surrounding blanks are ignored)
PyInt(s) ==
  LET t == Strip(s)
      neg == t # <<>> /\ Head(t) = "-"
      body == IF t # <<>> /\ Head(t) \in {"-", "+"} THEN Tail(t) ELSE t
  IN IF body = <<>> \/ \E k \in 1..Len(body) : ~IsDigit(body[k]) THEN None
     ELSE Some(IF neg THEN -DigitsValue(body, 0) ELSE DigitsValue(body, 0))

\* seq[k] of a Python list: a negative k counts from the end; None for the
\* IndexError of a k outside -len..len-1
PyIndex(seq, k) ==
  IF 0 <= k /\ k < Len(seq) THEN Some(seq[k + 1])
  ELSE IF k < 0 /\ -k <= Len(seq) THEN Some(seq[Len(seq) + k + 1])
  ELSE None

\* sep.join(parts)
RECURSIVE Join(_, _)
Join(parts, sep) ==
  IF parts = <<>> THEN <<>>
  ELSE IF Len(parts) = 1 THEN parts[1]
  ELSE parts[1] \o sep \o Join(Tail(parts), sep)

-----------------------------------------------------------------------------
(* The Queries branch: options, index, CSV *)

\* The option numbered from 0: f"{i}. {q['title']}"
FormatOptionZeroBased(i, q) == Str(i) \o <<".", " ">> \o q.title

\* f"{i+1}. {q['title']}" for the entry at 0-based position i (line 272)
FormatOption(i, q) == Str(i + 1) \o <<".", " ">> \o q.title

\* [f"{i+1}. {q['title']}" for i, q in enumerate(queries)] (line 272)
QueryOptions(qs) == [k \in 1..Len(qs) |-> FormatOption(k - 1, qs[k])]

\* int(query_option.split('.')[0]) - 1 (line 275); None for a ValueError
QueryIdx(option) ==
  LET n == PyInt(SplitFirst(option, "."))
  IN IF n = None THEN None ELSE Some(Val(n) - 1)

\* The file named by the 0-based index: f"query_{query_idx}_result.csv"
FileNameZeroBased(qi) ==
  <<"q", "u", "e", "r", "y", "_">> \o Str(qi)
    \o <<"_", "r", "e", "s", "u", "l", "t", ".", "c", "s", "v">>

\* f"query_{query_idx+1}_result.csv" (line 292)
FileName(qi) ==
  <<"q", "u", "e", "r", "y", "_">> \o Str(qi + 1)
    \o <<"_", "r", "e", "s", "u", "l", "t", ".", "c", "s", "v">>

\* The text to_csv writes for a value: a str as it is, an int in decimal, a
\* float by its repr (here n / 10^d with d >= 1 digits after the point).
RECURSIVE Pow10(_)
Pow10(d) == IF d = 0 THEN 1 ELSE 10 * Pow10(d - 1)

RECURSIVE ZeroPad(_, _)
ZeroPad(s, w) == IF Len(s) >= w THEN s ELSE ZeroPad(<<"0">> \o s, w)

CellText(v) ==
  CASE v.t = "str" -> v.s
    [] v.t = "int" -> Str(v.n)
    [] v.t = "float" ->
         LET a == IF v.n < 0 THEN -v.n ELSE v.n
         IN (IF v.n < 0 THEN <<"-">> ELSE <<>>)
            \o NatStr(a \div Pow10(v.d)) \o <<".">>
            \o ZeroPad(NatStr(a % Pow10(v.d)), v.d)

\* csv.QUOTE_MINIMAL, the default of to_csv: a field holding the delimiter, the
\* quote character or a line break is wrapped in quotes, its quotes doubled.
NeedsQuote(s) == \E k \in 1..Len(s) : s[k] \in {",", "\"", "\n", "\r"}

RECURSIVE DoubleQuotes(_)
DoubleQuotes(s) ==
  IF s = <<>> THEN <<>>
  ELSE (IF Head(s) = "\"" THEN <<"\"", "\"">> ELSE <<Head(s)>>)
       \o DoubleQuotes(Tail(s))

CsvField(s) ==
  IF NeedsQuote(s) THEN <<"\"">> \o DoubleQuotes(s) \o <<"\"">> ELSE s

CsvLine(fields) ==
  Join([k \in 1..Len(fields) |-> CsvField(fields[k])], <<",">>) \o <<"\n">>

NumRows(df) == IF df = <<>> THEN 0 ELSE Len(df[1].values)

Columns(df) == [c \in 1..Len(df) |-> df[c].name]

Row(df, r) == [c \in 1..Len(df) |-> CellText(df[c].values[r])]

RECURSIVE CsvRows(_, _)
CsvRows(df, r) ==
  IF r > NumRows(df) THEN <<>>
  ELSE CsvLine(Row(df, r)) \o CsvRows(df, r + 1)

\* A variant that also writes the row index, as to_csv does without
\* index=False: an empty first header field and the row number in each line.
ToCsvWithIndex(df) ==
  LET RECURSIVE rows(_)
      rows(r) == IF r > NumRows(df) THEN <<>>
                 ELSE CsvLine(<<Str(r - 1)>> \o Row(df, r)) \o rows(r + 1)
  IN CsvLine(<<<<>>>> \o Columns(df)) \o rows(1)

\* df.to_csv(index=False) (line 288): the header line, then one line per row
ToCsv(df) == CsvLine(Columns(df)) \o CsvRows(df, 1)

-----------------------------------------------------------------------------
(* The Visualization branch: graph and dicts *)

EmptyDict == [x \in {} |-> x]

\* d[k] = v on a Python dict
DictSet(d, k, v) == [x \in DOMAIN d \cup {k} |-> IF x = k THEN v ELSE d[x]]

\* nx.DiGraph(): the nodes and the arcs, each in insertion order
EmptyGraph == [nodes |-> <<>>, edges |-> <<>>]

InSeq(x, seq) == \E k \in 1..Len(seq) : seq[k] = x

\* G.add_node(n): a node already there is kept once
AddNode(g, n) ==
  IF InSeq(n, g.nodes) THEN g ELSE [g EXCEPT !.nodes = Append(@, n)]

\* G.add_edge(u, v): adds an endpoint that is no node yet, then the arc; an
\* arc already there is kept once
AddEdge(g, u, v) ==
  LET g1 == AddNode(AddNode(g, u), v)
  IN IF InSeq(<<u, v>>, g1.edges) THEN g1
     ELSE [g1 EXCEPT !.edges = Append(@, <<u, v>>)]

\* nx.spring_layout(G, k=2, iterations=50, seed=42): a dict with one entry
\* per node of G.  Only its key set is represented; the coordinates are the
\* floating-point result of networkx's force simulation.
SpringLayout(g) == {g.nodes[k] : k \in 1..Len(g.nodes)}

\* st.columns(5) (line 372)
LegendColumns == 5

-----------------------------------------------------------------------------
(* The script run *)

\* A run starts at the top of the script with no local bound and nothing on
\* the page.  G, node_colors and edge_labels stand empty until the branch
\* creates them empty (lines 301, 304, 310).
FreshRun ==
  /\ pc' = "sidebar"
  /\ idx' = 0
  /\ branches' = <<>>
  /\ shown' = <<>>
  /\ metrics' = <<>>
  /\ options' = None
  /\ query_idx' = None
  /\ selected_query' = None
  /\ csv' = None
  /\ download_button' = None
  /\ G' = EmptyGraph
  /\ node_colors' = EmptyDict
  /\ edge_labels' = EmptyDict
  /\ pos' = None
  /\ outcome' = "running"

\* An uncaught exception ends the run where it is raised.
Raise(e) == pc' = "done" /\ outcome' = e

\* st.metric calls of the sidebar (lines 63-65)
SidebarMetrics ==
  << <<"Node Types", <<"5">> >>, <<"Edge Types", <<"6">> >>,
     <<"Sample Queries", <<"6">> >> >>

\* The Overview metrics with the node-type count of a four-type model.
OverviewMetricsStale ==
  << <<"Node Types", <<"4">> >>, <<"Edge Types", <<"6">> >>,
     <<"Query Examples", <<"6">> >> >>

\* st.metric calls of the Overview branch (lines 227-231)
OverviewMetrics ==
  << <<"Node Types", <<"5">> >>, <<"Edge Types", <<"6">> >>,
     <<"Query Examples", <<"6">> >> >>

\* with st.sidebar: (lines 53-65)
Sidebar ==
  /\ pc = "sidebar"
  /\ metrics' = metrics \o SidebarMetrics
  /\ pc' = "data_model"
  /\ UNCHANGED <<page, query_option, idx, graph_model, queries, branches, shown,
                 options, query_idx, selected_query, csv, download_button,
                 download, G, node_colors, edge_labels, pos, outcome>>

\* graph_model = {...}; queries = [...] (lines 68-189)
DataModel ==
  /\ pc = "data_model"
  /\ graph_model' = GraphModelLiteral
  /\ queries' = QueriesLiteral
  /\ pc' = "dispatch"
  /\ UNCHANGED <<page, query_option, idx, branches, shown, metrics, options,
                 query_idx, selected_query, csv, download_button, download, G,
                 node_colors, edge_labels, pos, outcome>>

\* A chain that sends the Nodes and Edges selections to each other's branch.
BranchOfSwapped(p) ==
  CASE p = "Overview" -> "Overview"
    [] p = "Nodes" -> "Edges"
    [] p = "Edges" -> "Nodes"
    [] p = "Queries" -> "Queries"
    [] p = "Visualization" -> "Visualization"
    [] p = "Implementation" -> "Implementation"
    [] OTHER -> "footer"

\* The if/elif chain on page (lines 192, 234, 250, 267, 297, 378): the first
\* branch whose literal equals page, or none
BranchOf(p) ==
  CASE p = "Overview" -> "Overview"
    [] p = "Nodes" -> "Nodes"
    [] p = "Edges" -> "Edges"
    [] p = "Queries" -> "Queries"
    [] p = "Visualization" -> "Visualization"
    [] p = "Implementation" -> "Implementation"
    [] OTHER -> "footer"

Dispatch ==
  /\ pc = "dispatch"
  /\ pc' = BranchOf(page)
  /\ UNCHANGED <<page, query_option, idx, graph_model, queries, branches, shown,
                 metrics, options, query_idx, selected_query, csv,
                 download_button, download, G, node_colors, edge_labels, pos,
                 outcome>>

\* Where a branch goes after its header
Body(branch) ==
  CASE branch = "Overview" -> "overview_metrics"
    [] branch = "Nodes" -> "nodes_loop"
    [] branch = "Edges" -> "edges_loop"
    [] branch = "Queries" -> "selectbox"
    [] branch = "Visualization" -> "add_nodes"
    [] branch = "Implementation" -> "tabs"

\* The sub-header a branch opens with (lines 193, 235, 251, 268, 298, 379)
BranchHeader ==
  /\ InSeq(pc, Pages)
  /\ branches' = Append(branches, pc)
  /\ shown' = Append(shown, <<"header", pc>>)
  /\ pc' = Body(pc)
  /\ idx' = 0
  /\ UNCHANGED <<page, query_option, graph_model, queries, metrics, options,
                 query_idx, selected_query, csv, download_button, download, G,
                 node_colors, edge_labels, pos, outcome>>

\* Overview: the two text boxes and the three metrics (lines 195-231)
OverviewBody ==
  /\ pc = "overview_metrics"
  /\ metrics' = metrics \o OverviewMetrics
  /\ pc' = "footer"
  /\ UNCHANGED <<page, query_option, idx, graph_model, queries, branches, shown,
                 options, query_idx, selected_query, csv, download_button,
                 download, G, node_colors, edge_labels, pos, outcome>>

\* Nodes: for node in graph_model['nodes'] (lines 237-247)
NodesLoop ==
  /\ pc = "nodes_loop"
  /\ IF idx < Len(graph_model.nodes)
     THEN /\ shown' = Append(shown, <<"node", graph_model.nodes[idx + 1].type>>)
          /\ idx' = idx + 1
          /\ pc' = pc
     ELSE /\ pc' = "footer"
          /\ UNCHANGED <<shown, idx>>
  /\ UNCHANGED <<page, query_option, graph_model, queries, branches, metrics,
                 options, query_idx, selected_query, csv, download_button,
                 download, G, node_colors, edge_labels, pos, outcome>>

\* Edges: for idx, edge in enumerate(graph_model['edges']) (lines 253-264)
EdgesLoop ==
  /\ pc = "edges_loop"
  /\ IF idx < Len(graph_model.edges)
     THEN /\ shown' = Append(shown, <<"edge", graph_model.edges[idx + 1].relationship>>)
          /\ idx' = idx + 1
          /\ pc' = pc
     ELSE /\ pc' = "footer"
          /\ UNCHANGED <<shown, idx>>
  /\ UNCHANGED <<page, query_option, graph_model, queries, branches, metrics,
                 options, query_idx, selected_query, csv, download_button,
                 download, G, node_colors, edge_labels, pos, outcome>>

\* Queries: st.selectbox over the options (lines 270-273).  A widget that was
\* absent from the last run comes back on its first option; with no option
\* at all it returns None, and the split of line 275 raises.
Selectbox ==
  /\ pc = "selectbox"
  /\ LET opts == QueryOptions(queries)
     IN /\ options' = Some(opts)
        /\ IF opts = <<>>
           THEN /\ Raise("AttributeError")
                /\ UNCHANGED query_option
           ELSE /\ query_option' =
                     IF query_option # None /\ InSeq(Val(query_option), opts)
                     THEN query_option ELSE Some(opts[1])
                /\ pc' = "query_idx"
                /\ UNCHANGED outcome
  /\ UNCHANGED <<page, idx, graph_model, queries, branches, shown, metrics,
                 query_idx, selected_query, csv, download_button, download, G,
                 node_colors, edge_labels, pos>>

\* query_idx = int(query_option.split('.')[0]) - 1
\* selected_query = queries[query_idx] (lines 275-276)
SelectQueryIdx ==
  /\ pc = "query_idx"
  /\ LET qi == QueryIdx(Val(query_option))
         q == IF qi = None THEN None ELSE PyIndex(queries, Val(qi))
     IN /\ query_idx' = qi
        /\ selected_query' = q
        /\ IF qi = None THEN Raise("ValueError")
           ELSE IF q = None THEN Raise("IndexError")
           ELSE pc' = "show_query" /\ UNCHANGED outcome
  /\ UNCHANGED <<page, query_option, idx, graph_model, queries, branches, shown,
                 metrics, options, csv, download_button, download, G,
                 node_colors, edge_labels, pos>>

\* The title, description, query text and result table (lines 278-285)
ShowQuery ==
  /\ pc = "show_query"
  /\ shown' = shown \o << <<"description", Val(selected_query).description>>,
                          <<"code", Val(selected_query).query>>,
                          <<"dataframe", Val(selected_query).description>> >>
  /\ pc' = "to_csv"
  /\ UNCHANGED <<page, query_option, idx, graph_model, queries, branches,
                 metrics, options, query_idx, selected_query, csv,
                 download_button, download, G, node_colors, edge_labels, pos,
                 outcome>>

\* csv = selected_query['result'].to_csv(index=False) (line 288)
ExportCsv ==
  /\ pc = "to_csv"
  /\ csv' = Some(ToCsv(Val(selected_query).result))
  /\ pc' = "download_button"
  /\ UNCHANGED <<page, query_option, idx, graph_model, queries, branches, shown,
                 metrics, options, query_idx, selected_query, download_button,
                 download, G, node_colors, edge_labels, pos, outcome>>

\* st.download_button(data=csv, file_name=...) (lines 289-294)
DownloadButton ==
  /\ pc = "download_button"
  /\ download_button' = Some([file_name |-> FileName(Val(query_idx)),
                              data |-> Val(csv)])
  /\ pc' = "footer"
  /\ UNCHANGED <<page, query_option, idx, graph_model, queries, branches, shown,
                 metrics, options, query_idx, selected_query, csv, download, G,
                 node_colors, edge_labels, pos, outcome>>

\* Visualization: for node in graph_model['nodes'] (lines 305-307)
AddNodes ==
  /\ pc = "add_nodes"
  /\ IF idx < Len(graph_model.nodes)
     THEN LET node == graph_model.nodes[idx + 1]
          IN /\ G' = AddNode(G, node.type)
             /\ node_colors' = DictSet(node_colors, node.type, node.color)
             /\ idx' = idx + 1
             /\ pc' = pc
     ELSE /\ pc' = "add_edges"
          /\ idx' = 0
          /\ UNCHANGED <<G, node_colors>>
  /\ UNCHANGED <<page, query_option, graph_model, queries, branches, shown,
                 metrics, options, query_idx, selected_query, csv,
                 download_button, download, edge_labels, pos, outcome>>

\* for edge in graph_model['edges'] (lines 311-313)
AddEdges ==
  /\ pc = "add_edges"
  /\ IF idx < Len(graph_model.edges)
     THEN LET edge == graph_model.edges[idx + 1]
          IN /\ G' = AddEdge(G, edge.from, edge.to)
             /\ edge_labels' = DictSet(edge_labels, <<edge.from, edge.to>>,
                                       edge.relationship)
             /\ idx' = idx + 1
             /\ pc' = pc
     ELSE /\ pc' = "spring_layout"
          /\ idx' = 0
          /\ UNCHANGED <<G, edge_labels>>
  /\ UNCHANGED <<page, query_option, graph_model, queries, branches, shown,
                 metrics, options, query_idx, selected_query, csv,
                 download_button, download, node_colors, pos, outcome>>

\* pos = nx.spring_layout(G, k=2, iterations=50, seed=42) (lines 316-319)
Layout ==
  /\ pc = "spring_layout"
  /\ pos' = Some(SpringLayout(G))
  /\ pc' = "draw_nodes"
  /\ idx' = 0
  /\ UNCHANGED <<page, query_option, graph_model, queries, branches, shown,
                 metrics, options, query_idx, selected_query, csv,
                 download_button, download, G, node_colors, edge_labels,
                 outcome>>

\* for node in G.nodes(): ... node_color=node_colors[node] (lines 322-330):
\* a node of G that is no key of node_colors raises KeyError
DrawNodes ==
  /\ pc = "draw_nodes"
  /\ IF idx < Len(G.nodes)
     THEN IF G.nodes[idx + 1] \in DOMAIN node_colors
          THEN /\ shown' = Append(shown, <<"vertex", G.nodes[idx + 1]>>)
               /\ idx' = idx + 1
               /\ pc' = pc
               /\ UNCHANGED outcome
          ELSE /\ Raise("KeyError")
               /\ UNCHANGED <<shown, idx>>
     ELSE /\ pc' = "draw_edges"
          /\ UNCHANGED <<shown, idx, outcome>>
  /\ UNCHANGED <<page, query_option, graph_model, queries, branches, metrics,
                 options, query_idx, selected_query, csv, download_button,
                 download, G, node_colors, edge_labels, pos>>

\* draw_networkx_edges, draw_networkx_labels, draw_networkx_edge_labels and
\* st.pyplot (lines 333-368): one arrow per arc of G, one label per entry of
\* edge_labels
DrawEdges ==
  /\ pc = "draw_edges"
  /\ shown' = shown
       \o [k \in 1..Len(G.edges) |-> <<"arrow", edge_labels[G.edges[k]]>>]
       \o << <<"pyplot", "fig">> >>
  /\ pc' = "legend"
  /\ idx' = 0
  /\ UNCHANGED <<page, query_option, graph_model, queries, branches, metrics,
                 options, query_idx, selected_query, csv, download_button,
                 download, G, node_colors, edge_labels, pos, outcome>>

\* cols = st.columns(5); for idx, node in enumerate(graph_model['nodes']):
\* with cols[idx] (lines 372-375): a sixth node raises IndexError
Legend ==
  /\ pc = "legend"
  /\ IF idx < Len(graph_model.nodes)
     THEN IF idx < LegendColumns
          THEN /\ shown' = Append(shown, <<"legend", graph_model.nodes[idx + 1].type>>)
               /\ idx' = idx + 1
               /\ pc' = pc
               /\ UNCHANGED outcome
          ELSE /\ Raise("IndexError")
               /\ UNCHANGED <<shown, idx>>
     ELSE /\ pc' = "footer"
          /\ UNCHANGED <<shown, idx, outcome>>
  /\ UNCHANGED <<page, query_option, graph_model, queries, branches, metrics,
                 options, query_idx, selected_query, csv, download_button,
                 download, G, node_colors, edge_labels, pos>>

\* Implementation: the three tabs (lines 381-483)
Tabs ==
  /\ pc = "tabs"
  /\ shown' = shown \o << <<"tab", "Setup">>, <<"tab", "Code Examples">>,
                          <<"tab", "Deployment">> >>
  /\ pc' = "footer"
  /\ UNCHANGED <<page, query_option, idx, graph_model, queries, branches,
                 metrics, options, query_idx, selected_query, csv,
                 download_button, download, G, node_colors, edge_labels, pos,
                 outcome>>

\* The footer, and the end of the script (lines 486-493)
Footer ==
  /\ pc = "footer"
  /\ pc' = "done"
  /\ outcome' = "ok"
  /\ UNCHANGED <<page, query_option, idx, graph_model, queries, branches, shown,
                 metrics, options, query_idx, selected_query, csv,
                 download_button, download, G, node_colors, edge_labels, pos>>

-----------------------------------------------------------------------------
(* The user.  An interaction with a widget of a finished run sets the       *)
(* widget's value and runs the script again.                                *)

\* Another section is picked in the sidebar radio (line 56).  The selectbox
\* of the Queries branch is absent from one of the two runs, so its value is
\* dropped.
SelectPage(p) ==
  /\ pc = "done"
  /\ p # page
  /\ page' = p
  /\ query_option' = None
  /\ FreshRun
  /\ UNCHANGED <<graph_model, queries, download>>

\* The options of the rendered selectbox, none when it is not on the page
Offered == IF options = None THEN <<>> ELSE Val(options)

\* Another option is picked in the selectbox (line 270).
SelectQuery(o) ==
  /\ pc = "done"
  /\ query_option # None
  /\ o # Val(query_option)
  /\ query_option' = Some(o)
  /\ FreshRun
  /\ UNCHANGED <<page, graph_model, queries, download>>

\* The rendered download button is clicked (line 289): the browser saves
\* the button's data under its file name.
ClickDownload ==
  /\ pc = "done"
  /\ download_button # None
  /\ download' = download_button
  /\ FreshRun
  /\ UNCHANGED <<page, query_option, graph_model, queries>>

Init ==
  /\ page = Pages[1]
  /\ query_option = None
  /\ pc = "sidebar"
  /\ idx = 0
  /\ graph_model = GraphModelLiteral
  /\ queries = QueriesLiteral
  /\ branches = <<>>
  /\ shown = <<>>
  /\ metrics = <<>>
  /\ options = None
  /\ query_idx = None
  /\ selected_query = None
  /\ csv = None
  /\ download_button = None
  /\ download = None
  /\ G = EmptyGraph
  /\ node_colors = EmptyDict
  /\ edge_labels = EmptyDict
  /\ pos = None
  /\ outcome = "running"

Script ==
  \/ Sidebar \/ DataModel \/ Dispatch \/ BranchHeader
  \/ OverviewBody \/ NodesLoop \/ EdgesLoop
  \/ Selectbox \/ SelectQueryIdx \/ ShowQuery \/ ExportCsv \/ DownloadButton
  \/ AddNodes \/ AddEdges \/ Layout \/ DrawNodes \/ DrawEdges \/ Legend
  \/ Tabs \/ Footer

Next ==
  \/ Script
  \/ \E k \in 1..Len(Pages) : SelectPage(Pages[k])
  \/ \E k \in 1..Len(Offered) : SelectQuery(Offered[k])
  \/ ClickDownload

Spec == Init /\ [][Next]_vars

-----------------------------------------------------------------------------
(* The Visualization branch over other registries: the branch run on every  *)
(* registry of at most MaxRegNodes node types and MaxRegEdges edge types     *)
(* whose names are drawn from RegNames, an edge endpoint being unknown when  *)
(* the registry lists no node type of that name.                             *)

MaxRegNodes == 2
MaxRegEdges == 2

RegNames == {"Customer", "Order", "Dish"}

RegNodes == {GraphModelNodes[k] : k \in {j \in 1..Len(GraphModelNodes) :
                                          GraphModelNodes[j].type \in RegNames}}

RegEdges == {[from |-> a, to |-> b, relationship |-> "PLACES",
              properties |-> <<"timestamp">>] : a \in RegNames, b \in RegNames}

SeqsUpTo(S, n) == UNION {[1..k -> S] : k \in 0..n}

Registries == {[nodes |-> ns, edges |-> es] :
                 ns \in SeqsUpTo(RegNodes, MaxRegNodes),
                 es \in SeqsUpTo(RegEdges, MaxRegEdges)}

InitReg ==
  /\ page = "Visualization"
  /\ query_option = None
  /\ pc = "dispatch"
  /\ idx = 0
  /\ graph_model \in Registries
  /\ queries = QueriesLiteral
  /\ branches = <<>>
  /\ shown = <<>>
  /\ metrics = SidebarMetrics
  /\ options = None
  /\ query_idx = None
  /\ selected_query = None
  /\ csv = None
  /\ download_button = None
  /\ download = None
  /\ G = EmptyGraph
  /\ node_colors = EmptyDict
  /\ edge_labels = EmptyDict
  /\ pos = None
  /\ outcome = "running"

NextReg ==
  \/ Dispatch \/ BranchHeader
  \/ AddNodes \/ AddEdges \/ Layout \/ DrawNodes \/ DrawEdges \/ Legend
  \/ Footer

SpecReg == InitReg /\ [][NextReg]_vars

-----------------------------------------------------------------------------
(* Properties *)

NodeTypeNames(gm) == {gm.nodes[k].type : k \in 1..Len(gm.nodes)}

\* The Visualization branch of the current run is past a step
VizPast(steps) == InSeq("Visualization", branches) /\ pc \notin steps

(* C1: in every reachable state every EdgeType of graph_model['edges'] has a
   'from' and a 'to' that are each the 'type' of a NodeType of
   graph_model['nodes']. *)
C1_EdgesReferenceNodeTypes ==
  \A k \in 1..Len(graph_model.edges) :
    /\ graph_model.edges[k].from \in NodeTypeNames(graph_model)
    /\ graph_model.edges[k].to \in NodeTypeNames(graph_model)

\* The Visualization branch has added every edge of the registry to G.
C1_Witness ==
  /\ pc = "spring_layout"
  /\ Len(graph_model.edges) = 6
  /\ Len(G.edges) = 6
  /\ \A k \in 1..Len(G.edges) :
       InSeq(G.edges[k][1], G.nodes) /\ InSeq(G.edges[k][2], G.nodes)

(* C2: when the Visualization view is rendered with a registry holding an
   EdgeType whose 'from' is the name of no NodeType, the render ends in a
   ModelIntegrityError: the edge is not silently drawn or skipped and the
   render does not fail with another error. *)
HasUnknownFrom(gm) ==
  \E k \in 1..Len(gm.edges) : gm.edges[k].from \notin NodeTypeNames(gm)

Reported(label, from) ==
  {metrics[k][2] : k \in {j \in from..Len(metrics) : metrics[j][1] = label}}

OverviewRendered == InSeq("Overview", branches) /\ pc \in {"footer", "done"}

C3_OverviewCounts ==
  /\ [k \in 1..Len(graph_model.nodes) |-> graph_model.nodes[k].type]
       = <<"Customer", "Restaurant", "Dish", "DeliveryPerson", "Order">>
  /\ [k \in 1..Len(graph_model.edges) |-> graph_model.edges[k].relationship]
       = <<"PLACES", "FROM", "CONTAINS", "DELIVERS", "SERVES", "REVIEWS">>
  /\ Reported("Node Types", 1) \subseteq {Str(Len(graph_model.nodes))}
  /\ Reported("Edge Types", 1) \subseteq {Str(Len(graph_model.edges))}
  /\ OverviewRendered =>
       /\ Reported("Node Types", Len(SidebarMetrics) + 1) = {<<"5">>}
       /\ Reported("Edge Types", Len(SidebarMetrics) + 1) = {<<"6">>}

C3_Witness ==
  /\ pc = "done"
  /\ page = "Overview"
  /\ Len(metrics) = 6
  /\ download # None

(* C4: for every option the Queries selector offers, built as "<i+1>. <title>"
   for entry i of queries, the index recovered from the option text (the
   integer before the first '.', minus 1) is i and lies in 0..len(queries)-1;
   the query a run displays is the one its selected option names, and no run
   ends in a ValueError or IndexError. *)
C4_OptionIndexRoundTrip ==
  /\ \A i \in 0..(Len(queries) - 1) :
       QueryIdx(QueryOptions(queries)[i + 1]) = Some(i)
  /\ \A k \in 1..Len(Offered) :
       Offered[k] = Str(k) \o <<".", " ">> \o queries[k].title
  /\ query_idx # None =>
       /\ Val(query_idx) \in 0..(Len(queries) - 1)
       /\ Offered[Val(query_idx) + 1] = Val(query_option)
  /\ selected_query # None =>
       selected_query = Some(queries[Val(query_idx) + 1])
  /\ outcome \in {"running", "ok"}

C4_Witness ==
  /\ pc = "done"
  /\ page = "Queries"
  /\ query_idx = Some(5)
  /\ Val(selected_query).title = Query6.title

\* An RFC 4180 reader of the export: lines of comma-separated fields, a field
\* in quotes holding commas, line breaks and doubled quotes.  A character is
\* outside quotes when an even number of quote characters precede it.
Outside(s, i) == Cardinality({j \in 1..(i - 1) : s[j] = "\""}) % 2 = 0

Breaks(s, c) == {i \in 1..Len(s) : s[i] = c /\ Outside(s, i)}

\* The k-th smallest element of a set of numbers
Nth(P, k) == CHOOSE p \in P : Cardinality({q \in P : q < p}) = k - 1

\* The pieces of s between the positions P
Pieces(s, P) ==
  [k \in 1..(Cardinality(P) + 1) |->
     SubSeq(s, IF k = 1 THEN 1 ELSE Nth(P, k - 1) + 1,
               IF k = Cardinality(P) + 1 THEN Len(s) ELSE Nth(P, k) - 1)]

RECURSIVE Undouble(_)
Undouble(f) ==
  IF f = <<>> THEN <<>>
  ELSE IF Len(f) >= 2 /\ f[1] = "\"" /\ f[2] = "\""
       THEN <<"\"">> \o Undouble(SubSeq(f, 3, Len(f)))
       ELSE <<Head(f)>> \o Undouble(Tail(f))

Unquote(f) ==
  IF Len(f) >= 2 /\ f[1] = "\"" /\ f[Len(f)] = "\""
  THEN Undouble(SubSeq(f, 2, Len(f) - 1)) ELSE f

ReadCsvLine(line) ==
  LET fs == Pieces(line, Breaks(line, ","))
  IN [k \in 1..Len(fs) |-> Unquote(fs[k])]

ReadCsv(s) ==
  LET ls == Pieces(s, Breaks(s, "\n"))
      n == IF ls[Len(ls)] = <<>> THEN Len(ls) - 1 ELSE Len(ls)
  IN [k \in 1..n |-> ReadCsvLine(ls[k])]

\* A table as text: the column names, then each row's values in text form
TextTable(df) == <<Columns(df)>> \o [r \in 1..NumRows(df) |-> Row(df, r)]

ExportName(n) ==
  <<"q", "u", "e", "r", "y", "_">> \o <<Digits[n + 1]>>
    \o <<"_", "r", "e", "s", "u", "l", "t", ".", "c", "s", "v">>

\* file is the export of the query at 1-based position n and of no other
IsExportOf(file, n) ==
  /\ file.file_name = ExportName(n)
  /\ ReadCsv(file.data)[1] = Columns(queries[n].result)
  /\ ReadCsv(file.data) = TextTable(queries[n].result)
  /\ \A m \in 1..Len(queries) :
       m # n => ReadCsv(file.data) # TextTable(queries[m].result)

(* C5: for every selectable query example with 1-based position n, the
   download the Queries view offers, and the file a download request saves,
   is named exactly query_<n>_result.csv and holds the CSV serialization of
   that query's result table and of no other query's, its header row being
   the table's field names in order. *)
C5_DownloadIsSelectedQuery ==
  /\ download_button # None =>
       \E n \in 1..Len(queries) :
         /\ Val(query_option) = Offered[n]
         /\ IsExportOf(Val(download_button), n)
  /\ download # None =>
       \E n \in 1..Len(queries) : IsExportOf(Val(download), n)

C5_Witness ==
  /\ pc = "done"
  /\ download # None
  /\ Val(download).file_name = ExportName(3)
  /\ download_button # None
  /\ Val(download_button).file_name = ExportName(6)

(* C6: for every QueryExample of queries, writing its result table with
   to_csv(index=False) and reading the text back gives the same column names
   in the same order and the same rows of the same cell values, each value
   in its text form. *)
C6_CsvRoundTrip ==
  /\ \A k \in 1..Len(queries) :
       ReadCsv(ToCsv(queries[k].result)) = TextTable(queries[k].result)
  /\ ReadCsv(ToCsv(queries[2].result))[2] =
       << <<"S", "p", "i", "c", "e", " ", "G", "a", "r", "d", "e", "n">>,
          <<"B", "u", "t", "t", "e", "r", " ", "C", "h", "i", "c", "k", "e", "n">>,
          <<"2", "8", "0">>,
          <<"M", "a", "i", "n", " ", "C", "o", "u", "r", "s", "e">> >>
  /\ csv # None =>
       ReadCsv(Val(csv)) = TextTable(Val(selected_query).result)

\* The export of the table that holds floats has been written.
C6_Witness ==
  /\ pc = "download_button"
  /\ query_idx = Some(3)
  /\ csv # None
  /\ ReadCsv(Val(csv))[2][3] = <<"4", ".", "7">>

\* The keys of pos are the registry's node type names (the first half of C7;
\* its second half, that no two coordinates coincide, is about numbers this
\* model does not hold).
PosKeysAreNodeTypeNames ==
  pos # None => Val(pos) = NodeTypeNames(graph_model)

(* C8: in every reachable state no two NodeTypes of graph_model['nodes'] have
   the same 'type', and once the Visualization branch has gone through them
   G has one vertex and node_colors one entry per NodeType: 5 entries, 5
   vertices, 5 colours. *)
C8_NodeTypeNamesUnique ==
  /\ \A j, k \in 1..Len(graph_model.nodes) :
       graph_model.nodes[j].type = graph_model.nodes[k].type => j = k
  /\ VizPast({"add_nodes"}) =>
       /\ Len(graph_model.nodes) = 5
       /\ Len(G.nodes) = 5
       /\ Cardinality(DOMAIN node_colors) = 5
       /\ \A k \in 1..Len(graph_model.nodes) :
            node_colors[graph_model.nodes[k].type] = graph_model.nodes[k].color

C8_Witness ==
  /\ pc = "add_edges"
  /\ idx = 0
  /\ Len(G.nodes) = 5
  /\ DOMAIN node_colors = NodeTypeNames(graph_model)

(* C9: every step leaves graph_model and queries as they are, only a
   selection by the user changes page, and every run that ends has executed
   exactly one page branch, the one of the current selection. *)
C9_OneBranchNoMutation ==
  /\ [][graph_model' = graph_model /\ queries' = queries]_vars
  /\ [][pc # "done" => page' = page]_vars
  /\ [](Len(branches) <= 1)
  /\ [](pc = "done" => branches = <<page>>)

C9_Witness ==
  /\ pc = "done"
  /\ page = "Edges"
  /\ branches = <<"Edges">>
  /\ download # None

(* C10: the (from, to) pairs of the registry's EdgeTypes are pairwise
   distinct, and once the Visualization branch has gone through them G has
   as many arcs as there are EdgeTypes (6) and edge_labels holds each
   EdgeType's relationship label under its own (from, to) key. *)
C10_EdgePairsDistinct ==
  /\ \A j, k \in 1..Len(graph_model.edges) :
       ( /\ graph_model.edges[j].from = graph_model.edges[k].from
         /\ graph_model.edges[j].to = graph_model.edges[k].to ) => j = k
  /\ VizPast({"add_nodes", "add_edges"}) =>
       /\ Len(graph_model.edges) = 6
       /\ Len(G.edges) = 6
       /\ Cardinality(DOMAIN edge_labels) = 6
       /\ \A k \in 1..Len(graph_model.edges) :
            edge_labels[<<graph_model.edges[k].from, graph_model.edges[k].to>>]
              = graph_model.edges[k].relationship

C10_Witness ==
  /\ pc = "legend"
  /\ Len(G.edges) = 6
  /\ {shown[k][2] : k \in {j \in 1..Len(shown) : shown[j][1] = "arrow"}}
       = {"PLACES", "FROM", "CONTAINS", "DELIVERS", "SERVES", "REVIEWS"}

=============================================================================
